---- MODULE Spec2Model ----
(***************************************************************************)
(* A model of evalml's pipeline orchestration: PipelineBase (construction, *)
(* name generation, fit / transform chain, predict, score, describe,       *)
(* indexing), MulticlassClassificationPipeline.score and the class-level   *)
(* declarations of RFClassificationPipeline.                               *)
(*                                                                         *)
(* Data is abstracted to what the pipeline itself reads: a feature matrix  *)
(* X is the list of its column names, components and objectives are       *)
(* opaque collaborators whose results are chosen by the environment and   *)
(* any call to which may raise.                                            *)
(***************************************************************************)
EXTENDS Naturals, Sequences, FiniteSets, TLC

VARIABLES
    cls,                  \* the pipeline class: its class-level declarations
    phase,                \* "class" | "constructed" | "failed" (__init__ raised)
    component_graph,      \* self.component_graph: the instantiated components
    problem_types,        \* self.problem_types
    input_feature_names,  \* self.input_feature_names
    results,              \* self.results
    parameters,           \* self.parameters
    estimator,            \* self.estimator: index into component_graph, 0 is None
    name,                 \* self.name
    ret,                  \* outcome of the most recent call on the pipeline
    ctor_parameters,      \* history: the mapping handed to __init__
    fitted                \* history: some fit call has returned normally

vars == <<cls, phase, component_graph, problem_types, input_feature_names,
          results, parameters, estimator, name, ret, ctor_parameters, fitted>>

(***************************************************************************)
(* Bounds of the model.                                                    *)
(***************************************************************************)
MaxGraphLen == 2
MaxProblemTypes == 2
MaxParamKeys == 1
MaxLifeGraphLen == 3
MaxObjectives == 2

SeqsUpTo(S, n) == UNION {[1..k -> S] : k \in 0..n}

(***************************************************************************)
(* Components.  The component classes live outside the modelled files;    *)
(* the names are those the repository's pipelines refer to.                *)
(***************************************************************************)
Transformers ==
    {"Simple Imputer", "One Hot Encoder", "RF Classifier Select From Model"}
Estimators == {"Random Forest Classifier"}
ComponentNames == Transformers \cup Estimators

\* isinstance(component, Estimator)
IsEstimator(component) == component.name \in Estimators

\* estimator.problem_types
EstimatorProblemTypes(component) == {"binary", "multiclass"}

ProblemTypes == {"binary", "multiclass", "regression"}

\* handle_problem_types: a known tag resolves to itself
handle_problem_types(problem_type) == problem_type

\* handle_component: a component reference resolves to a default instance
handle_component(component) == [name |-> component, parameters |-> "default"]

(***************************************************************************)
(* The parameters mapping: component name -> keyword arguments.  Keyword   *)
(* arguments are "valid" (the component's constructor accepts them) or     *)
(* "invalid" (it raises ValueError or TypeError); a name without an entry  *)
(* gets {} ("default").                                                    *)
(***************************************************************************)
ParamKeys == ComponentNames \cup {"Unknown Component"}
Kwargs == {"valid", "invalid"}
ParameterMappings ==
    UNION {[D -> Kwargs] : D \in {S \in SUBSET ParamKeys : Cardinality(S) <= MaxParamKeys}}
NoParameters == [k \in {} |-> "default"]

\* parameters.get(component_name, {})
ParametersGet(params, component_name) ==
    IF component_name \in DOMAIN params THEN params[component_name] ELSE "default"

\* component_class(**component_parameters) raises ValueError / TypeError
ConstructorRaises(component_parameters) == component_parameters = "invalid"

(***************************************************************************)
(* Outcomes of a call.                                                     *)
(***************************************************************************)
NoError == "none"
NoName == ""
MsgInstantiate == "Error received when instantiating component"
MsgNoEstimator ==
    "A pipeline must have an Estimator as the last component in component_graph."
MsgProblemType == "Problem type not valid for this component graph."
MsgSlicing == "Slicing pipelines is currently not supported."
MsgSetItem == "Setting pipeline components is not supported."

Outcome(op, err, msg, info, value, calls) ==
    [op |-> op, err |-> err, msg |-> msg, info |-> info, value |-> value,
     calls |-> calls]
NoCall == Outcome("none", NoError, "", <<>>, <<>>, <<>>)

(***************************************************************************)
(* PipelineBase.__init__ and its helpers.                                  *)
(***************************************************************************)
\* _instantiate_component
_instantiate_component(component, params) ==
    LET handled == handle_component(component)
        component_name == handled.name
        component_parameters == ParametersGet(params, component_name)
    IN  IF ConstructorRaises(component_parameters)
        THEN [err |-> "ValueError", msg |-> MsgInstantiate,
              info |-> <<component_name, component_parameters>>]
        ELSE [err |-> NoError,
              new_component |-> [name |-> component_name,
                                 parameters |-> component_parameters]]

RECURSIVE NameTail(_, _)
NameTail(graph, index) ==
    IF index >= Len(graph) THEN ""
    ELSE (IF index = 1 THEN " w/ " ELSE " + ")
         \o graph[index].name \o NameTail(graph, index + 1)

\* _generate_name
_generate_name(graph, est) ==
    (IF est # 0 THEN graph[est].name ELSE "Pipeline") \o NameTail(graph, 1)

\* a validation loop that stops after the first declared type
UnsupportedFirstOnly(types, est_types) ==
    IF types # <<>> /\ types[1] \notin est_types THEN <<types[1]>> ELSE <<>>

\* _validate_problem_types: the declared types the estimator does not support,
\* in the order the loop meets them
Unsupported(types, est_types) ==
    SelectSeq(types, LAMBDA t : t \notin est_types)

\* the last component taken as the estimator without the isinstance test
EstimatorIndexNoCheck(graph) == Len(graph)

\* self.component_graph[-1] if isinstance(self.component_graph[-1], Estimator)
\* else None
EstimatorIndex(graph) ==
    IF IsEstimator(graph[Len(graph)]) THEN Len(graph) ELSE 0

\* __init__: the fields as the constructor leaves them, and how it ended
PipelineInit(c, params) ==
    LET made == [i \in 1..Len(c.component_graph) |->
                    _instantiate_component(c.component_graph[i], params)]
        failing == {i \in DOMAIN made : made[i].err # NoError}
        first == CHOOSE i \in failing : \A j \in failing : i <= j
        graph == [i \in DOMAIN made |-> made[i].new_component]
        types == [i \in DOMAIN c.problem_types |->
                    handle_problem_types(c.problem_types[i])]
        est == EstimatorIndex(graph)
        bad == Unsupported(types, EstimatorProblemTypes(graph[est]))
        unset == [component_graph |-> <<>>, problem_types |-> <<>>,
                  input_feature_names |-> <<>>, results |-> <<>>,
                  parameters |-> NoParameters, estimator |-> 0, name |-> NoName]
        assigned == [unset EXCEPT !.component_graph = graph,
                                  !.problem_types = types,
                                  !.parameters = params]
    IN  IF failing # {}
        THEN [fields |-> unset,
              ret |-> Outcome("__init__", made[first].err, made[first].msg,
                              made[first].info, <<>>, <<>>)]
        ELSE IF Len(graph) = 0
        THEN [fields |-> assigned,
              ret |-> Outcome("__init__", "IndexError", "list index out of range",
                              <<>>, <<>>, <<>>)]
        ELSE IF est = 0
        THEN [fields |-> assigned,
              ret |-> Outcome("__init__", "ValueError", MsgNoEstimator,
                              <<>>, <<>>, <<>>)]
        ELSE IF bad # <<>>
        THEN [fields |-> [assigned EXCEPT !.estimator = est,
                                          !.name = _generate_name(graph, est)],
              ret |-> Outcome("__init__", "ValueError", MsgProblemType,
                              <<bad[1]>>, EstimatorProblemTypes(graph[est]), <<>>)]
        ELSE [fields |-> [assigned EXCEPT !.estimator = est,
                                          !.name = _generate_name(graph, est)],
              ret |-> Outcome("__init__", NoError, "", <<>>, <<>>, <<>>)]

Construct(params) ==
    /\ phase = "class"
    /\ LET r == PipelineInit(cls, params)
       IN  /\ phase' = IF r.ret.err = NoError THEN "constructed" ELSE "failed"
           /\ component_graph' = r.fields.component_graph
           /\ problem_types' = r.fields.problem_types
           /\ input_feature_names' = r.fields.input_feature_names
           /\ results' = r.fields.results
           /\ parameters' = r.fields.parameters
           /\ estimator' = r.fields.estimator
           /\ name' = r.fields.name
           /\ ret' = r.ret
    /\ ctor_parameters' = params
    /\ UNCHANGED <<cls, fitted>>

(***************************************************************************)
(* Pipeline classes.                                                       *)
(***************************************************************************)
Kinds == {"base", "multiclass"}

\* class RFClassificationPipeline
RFClassificationPipeline ==
    [name |-> "Random Forest Classifier w/ One Hot Encoder + Simple Imputer + RF Classifier Select From Model",
     component_graph |-> <<"Simple Imputer", "One Hot Encoder",
                            "RF Classifier Select From Model",
                            "Random Forest Classifier">>,
     problem_types |-> <<"binary", "multiclass">>,
     kind |-> "base"]

\* subclasses of PipelineBase declaring component_graph and problem_types
PipelineClasses ==
    {RFClassificationPipeline} \cup
    {[name |-> NoName, component_graph |-> g, problem_types |-> t, kind |-> k] :
        g \in SeqsUpTo(ComponentNames, MaxGraphLen),
        t \in SeqsUpTo(ProblemTypes, MaxProblemTypes),
        k \in Kinds}

InitClass(classes) ==
    /\ cls \in classes
    /\ phase = "class"
    /\ component_graph = <<>>
    /\ problem_types = <<>>
    /\ input_feature_names = <<>>
    /\ results = <<>>
    /\ parameters = NoParameters
    /\ estimator = 0
    /\ name = NoName
    /\ ret = NoCall
    /\ ctor_parameters = NoParameters
    /\ fitted = FALSE

(***************************************************************************)
(* Data.  A feature matrix is a DataFrame (its column labels) or a raw     *)
(* array (its width); pd.DataFrame(X) keeps a DataFrame and labels the     *)
(* columns of an array 0, 1, ...                                           *)
(***************************************************************************)
DataFrame(columns) == [type |-> "DataFrame", columns |-> columns]
ndarray(width) == [type |-> "ndarray", width |-> width]
RangeIndex(width) == [i \in 1..width |-> IF i = 1 THEN "0" ELSE "1"]

\* if not isinstance(X, pd.DataFrame): X = pd.DataFrame(X)
pd_DataFrame(X) ==
    IF X.type = "DataFrame" THEN X ELSE DataFrame(RangeIndex(X.width))

\* list(pd.DataFrame(X_t))
Columns(X_t) == pd_DataFrame(X_t).columns

\* the feature matrices a caller passes
Inputs == {DataFrame(<<"a", "b">>), ndarray(1)}
\* what a transformer may return
Outputs == {DataFrame(<<"a">>), DataFrame(<<"a", "b">>)}

\* dict.update({key: value})
Update(d, key, value) ==
    [k \in DOMAIN d \cup {key} |-> IF k = key THEN value ELSE d[k]]

Raised == "ComponentError"

(***************************************************************************)
(* fit.  outs[i] is what transformer i returns from fit_transform;         *)
(* raiseAt is the component whose call raises (0: none).                   *)
(***************************************************************************)
\* self.input_feature_names.update({component.name: list(pd.DataFrame(X_t))})
RecordInput(names, component, X_t) == Update(names, component.name, Columns(X_t))

RECURSIVE _fit(_, _, _, _, _, _, _, _)
_fit(graph, est, index, X_t, outs, raiseAt, names, calls) ==
    IF index < Len(graph)
    THEN LET component == graph[index]
             names1 == RecordInput(names, component, X_t)
             calls1 == calls \o
                 <<[call |-> "record", component |-> index, input |-> X_t],
                   [call |-> "fit_transform", component |-> index, input |-> X_t]>>
         IN  IF raiseAt = index
             THEN [err |-> Raised, names |-> names1, calls |-> calls1]
             ELSE _fit(graph, est, index + 1, outs[index], outs, raiseAt,
                       names1, calls1)
    ELSE LET names1 == RecordInput(names, graph[est], X_t)
             calls1 == calls \o
                 <<[call |-> "record", component |-> est, input |-> X_t],
                   [call |-> "fit", component |-> est, input |-> X_t]>>
         IN  [err |-> IF raiseAt = est THEN Raised ELSE NoError,
              names |-> names1, calls |-> calls1]

Idle == phase = "constructed" /\ ret.op = "none"

Fit(X, outs, raiseAt) ==
    /\ Idle
    /\ LET r == _fit(component_graph, estimator, 1, pd_DataFrame(X), outs,
                     raiseAt, input_feature_names, <<>>)
       IN  /\ input_feature_names' = r.names
           /\ ret' = Outcome("fit", r.err, "", <<X>>, <<>>, r.calls)
           /\ fitted' = (fitted \/ r.err = NoError)
    /\ UNCHANGED <<cls, phase, component_graph, problem_types, results,
                   parameters, estimator, name, ctor_parameters>>

(***************************************************************************)
(* predict.                                                                *)
(***************************************************************************)
\* _transform: the calls made, and whether one of them raised
RECURSIVE _transform(_, _, _, _)
_transform(graph, index, raiseAt, calls) ==
    IF index < Len(graph)
    THEN LET calls1 == Append(calls, [call |-> "transform", component |-> index])
         IN  IF raiseAt = index
             THEN [err |-> Raised, calls |-> calls1]
             ELSE _transform(graph, index + 1, raiseAt, calls1)
    ELSE [err |-> NoError, calls |-> calls]

\* X_t = self._transform(X); return self.estimator.<method>(X_t)
TransformThen(graph, est, method, raiseAt) ==
    LET t == _transform(graph, 1, raiseAt, <<>>)
    IN  IF t.err # NoError
        THEN [err |-> t.err, value |-> <<>>, calls |-> t.calls]
        ELSE [err |-> IF raiseAt = est THEN Raised ELSE NoError,
              value |-> IF raiseAt = est THEN <<>> ELSE <<"y_" \o method>>,
              calls |-> Append(t.calls, [call |-> method, component |-> est])]

\* predict
predict(graph, est, raiseAt) == TransformThen(graph, est, "predict", raiseAt)

\* predict_proba, defined by the classification pipelines
predict_proba(graph, est, raiseAt) ==
    TransformThen(graph, est, "predict_proba", raiseAt)

Predict(X, raiseAt) ==
    /\ Idle
    /\ LET r == predict(component_graph, estimator, raiseAt)
       IN  ret' = Outcome("predict", r.err, "", <<X>>, r.value, r.calls)
    /\ UNCHANGED <<cls, phase, component_graph, problem_types,
                   input_feature_names, results, parameters, estimator, name,
                   ctor_parameters, fitted>>

(***************************************************************************)
(* score.  Objectives are opaque: an objective is its name and its two    *)
(* flags, and what its score method returns is the call it received.      *)
(***************************************************************************)
Objectives ==
    {[name |-> "hard", score_needs_proba |-> FALSE, uses_extra_columns |-> FALSE],
     [name |-> "hard_X", score_needs_proba |-> FALSE, uses_extra_columns |-> TRUE],
     [name |-> "proba", score_needs_proba |-> TRUE, uses_extra_columns |-> FALSE],
     [name |-> "proba_X", score_needs_proba |-> TRUE, uses_extra_columns |-> TRUE]}

\* get_objective: an objective resolves to itself
get_objective(o) == o

\* objective.score(first, second) / objective.score(first, second, X)
ObjectiveScore(objective, first, second, extra) ==
    <<objective.name, first, second, extra>>

\* a mapping that puts the newest key first
OrderedUpdatePrepend(d, key, value) ==
    <<<<key, value>>>> \o SelectSeq(d, LAMBDA e : e[1] # key)

\* OrderedDict.update({key: value}): a new key goes last, a known one keeps its place
OrderedUpdate(d, key, value) ==
    IF \E i \in DOMAIN d : d[i][1] = key
    THEN [i \in DOMAIN d |-> IF d[i][1] = key THEN <<key, value>> ELSE d[i]]
    ELSE Append(d, <<key, value>>)

\* PipelineBase.score: what one objective is called with
BaseDispatch(objective, y_predictions) ==
    IF objective.uses_extra_columns
    THEN ObjectiveScore(objective, y_predictions, "y", "X")
    ELSE ObjectiveScore(objective, y_predictions, "y", "None")

\* MulticlassClassificationPipeline.score: what one objective is called with
MulticlassDispatch(objective, y_predictions) ==
    ObjectiveScore(objective, "y", y_predictions, "X")

Dispatch(kind, objective, y_predictions) ==
    IF kind = "multiclass"
    THEN MulticlassDispatch(objective, y_predictions)
    ELSE BaseDispatch(objective, y_predictions)

\* a loop that never consults the cached predictions
NeedsCallAlways(cached) == TRUE

\* if y_predicted is None: y_predicted = self.predict(X)
NeedsCall(cached) == cached = <<>>

\* the loop over the objectives, from objective i on.  y_predicted and
\* y_predicted_proba are <<>> for None; fail names the calls that raise
RECURSIVE ScoreLoop(_, _, _, _, _, _, _, _)
ScoreLoop(kind, objectives, i, y_predicted, y_predicted_proba, scores, calls, fail) ==
    IF i > Len(objectives)
    THEN [err |-> NoError, scores |-> scores, calls |-> calls]
    ELSE LET objective == get_objective(objectives[i])
             proba == objective.score_needs_proba
             method == IF proba THEN "predict_proba" ELSE "predict"
             cached == IF proba THEN y_predicted_proba ELSE y_predicted
             call == NeedsCall(cached)
             r == IF proba
                  THEN predict_proba(component_graph, estimator, fail.predict_proba)
                  ELSE predict(component_graph, estimator, fail.predict)
             calls1 == IF call THEN Append(calls, [call |-> method]) ELSE calls
             y_predictions == IF call THEN r.value ELSE cached
             score == Dispatch(kind, objective, y_predictions[1])
             calls2 == Append(calls1, [call |-> "score", objective |-> objective.name,
                                       args |-> score])
         IN  IF call /\ r.err # NoError
             THEN [err |-> r.err, scores |-> <<>>, calls |-> calls1]
             ELSE IF fail.score = i
             THEN [err |-> Raised, scores |-> <<>>, calls |-> calls2]
             ELSE ScoreLoop(kind, objectives, i + 1,
                            IF proba THEN y_predicted ELSE y_predictions,
                            IF proba THEN y_predictions ELSE y_predicted_proba,
                            OrderedUpdate(scores, objective.name, score),
                            calls2, fail)

Score(X, objectives, fail) ==
    /\ Idle
    /\ LET r == ScoreLoop(cls.kind, objectives, 1, <<>>, <<>>, <<>>, <<>>, fail)
       IN  ret' = Outcome("score", r.err, "", objectives, r.scores, r.calls)
    /\ UNCHANGED <<cls, phase, component_graph, problem_types,
                   input_feature_names, results, parameters, estimator, name,
                   ctor_parameters, fitted>>

\* which of the calls made inside score raise (0: none): predict,
\* predict_proba (score sees only that they raised, not the component that
\* did, so the estimator stands for any of them), and the objective whose
\* score raises
Failures(objectives) ==
    [predict : {0, estimator}, predict_proba : {0, estimator},
     score : 0..Len(objectives)]

(***************************************************************************)
(* describe, indexing, feature_importances.                               *)
(***************************************************************************)
\* describe rebuilding the mapping from the instantiated components
DescribeFromComponents(return_dict) ==
    IF return_dict
    THEN [n \in {component_graph[i].name : i \in DOMAIN component_graph} |->
            ParametersGet(parameters, n)]
    ELSE <<>>

\* describe: the lines logged are not modelled; the value returned is
DescribeValue(return_dict) == IF return_dict THEN parameters ELSE <<>>

Describe(return_dict) ==
    /\ Idle
    /\ ret' = Outcome("describe", NoError, "",
                      IF return_dict THEN <<"return_dict">> ELSE <<>>,
                      DescribeValue(return_dict), <<>>)
    /\ UNCHANGED <<cls, phase, component_graph, problem_types,
                   input_feature_names, results, parameters, estimator, name,
                   ctor_parameters, fitted>>

\* get_component: the first component of that name, or None
get_component(graph, component_name) ==
    LET hits == {i \in DOMAIN graph : graph[i].name = component_name}
    IN  IF hits = {} THEN <<>>
        ELSE <<graph[CHOOSE i \in hits : \A j \in hits : i <= j]>>

\* the indices a caller may pass: a slice, an int v or -v, a component name
Indices ==
    {[type |-> "slice"]} \cup
    {[type |-> "int", value |-> v, negative |-> FALSE] : v \in 0..MaxLifeGraphLen} \cup
    {[type |-> "int", value |-> v, negative |-> TRUE] : v \in 1..MaxLifeGraphLen} \cup
    {[type |-> "str", value |-> c] : c \in ComponentNames}

\* self.component_graph[index] for an int: the 1-based position of the element,
\* 0 when the index is out of range
Position(graph, index) ==
    IF index.negative
    THEN (IF index.value <= Len(graph) THEN Len(graph) - index.value + 1 ELSE 0)
    ELSE (IF index.value < Len(graph) THEN index.value + 1 ELSE 0)

\* __getitem__
getitem(graph, index) ==
    IF index.type = "slice"
    THEN Outcome("__getitem__", "NotImplementedError", MsgSlicing, <<index>>, <<>>, <<>>)
    ELSE IF index.type = "int"
    THEN IF Position(graph, index) = 0
         THEN Outcome("__getitem__", "IndexError", "list index out of range",
                      <<index>>, <<>>, <<>>)
         ELSE Outcome("__getitem__", NoError, "", <<index>>,
                      <<graph[Position(graph, index)]>>, <<>>)
    ELSE Outcome("__getitem__", NoError, "", <<index>>,
                 get_component(graph, index.value), <<>>)

GetItem(index) ==
    /\ Idle
    /\ ret' = getitem(component_graph, index)
    /\ UNCHANGED <<cls, phase, component_graph, problem_types,
                   input_feature_names, results, parameters, estimator, name,
                   ctor_parameters, fitted>>

\* __setitem__
setitem(graph, index, value) ==
    [graph |-> graph,
     ret |-> Outcome("__setitem__", "NotImplementedError", MsgSetItem,
                     <<index>>, <<>>, <<>>)]

SetItem(index, value) ==
    /\ Idle
    /\ component_graph' = setitem(component_graph, index, value).graph
    /\ ret' = setitem(component_graph, index, value).ret
    /\ UNCHANGED <<cls, phase, problem_types, input_feature_names, results,
                   parameters, estimator, name, ctor_parameters, fitted>>

\* importances.sort(key=lambda x: -abs(x[1])): a stable sort, largest first
RECURSIVE Insert(_, _)
Insert(sorted, pair) ==
    IF sorted = <<>> THEN <<pair>>
    ELSE IF Head(sorted)[2] >= pair[2]
         THEN <<Head(sorted)>> \o Insert(Tail(sorted), pair)
         ELSE <<pair>> \o sorted

RECURSIVE SortByImportance(_)
SortByImportance(pairs) ==
    IF pairs = <<>> THEN <<>>
    ELSE Insert(SortByImportance(SubSeq(pairs, 1, Len(pairs) - 1)), pairs[Len(pairs)])

\* zip(feature_names, self.estimator.feature_importances)
Zip(feature_names, importances) ==
    [i \in 1..(IF Len(feature_names) < Len(importances)
               THEN Len(feature_names) ELSE Len(importances)) |->
        <<feature_names[i], importances[i]>>]

\* feature_importances; importances <<>> stands for the estimator raising
feature_importances(names, graph, est, importances) ==
    IF graph[est].name \notin DOMAIN names
    THEN Outcome("feature_importances", "KeyError", graph[est].name, <<>>, <<>>, <<>>)
    ELSE IF importances = <<>>
    THEN Outcome("feature_importances", Raised, "", <<>>, <<>>, <<>>)
    ELSE Outcome("feature_importances", NoError, "", <<>>,
                 SortByImportance(Zip(names[graph[est].name], importances)), <<>>)

FeatureImportances(importances) ==
    /\ Idle
    /\ ret' = feature_importances(input_feature_names, component_graph,
                                  estimator, importances)
    /\ UNCHANGED <<cls, phase, component_graph, problem_types,
                   input_feature_names, results, parameters, estimator, name,
                   ctor_parameters, fitted>>

\* the caller takes the outcome of the call; the pipeline is ready for the next
Return ==
    /\ phase = "constructed"
    /\ ret.op # "none"
    /\ ret' = NoCall
    /\ UNCHANGED <<cls, phase, component_graph, problem_types,
                   input_feature_names, results, parameters, estimator, name,
                   ctor_parameters, fitted>>

Init == InitClass(PipelineClasses)

Next == \E params \in ParameterMappings : Construct(params)

Spec == Init /\ [][Next]_vars

(***************************************************************************)
(* The life of a pipeline: construction, then any calls in any order.     *)
(***************************************************************************)
LifeComponents == {"Simple Imputer", "Random Forest Classifier"}

LifeClasses ==
    {[name |-> NoName, component_graph |-> g, problem_types |-> <<"binary">>,
      kind |-> k] :
        g \in SeqsUpTo(LifeComponents, MaxLifeGraphLen), k \in Kinds}

LifeParameters ==
    {NoParameters} \cup [{"Random Forest Classifier"} -> Kwargs]

\* self.estimator.feature_importances: one value per feature, or <<>> when
\* reading it raises
Importances == SeqsUpTo({0, 1}, 2)

\* score is called with no objective or with a single one
LifeObjectiveLists == {<<>>} \cup {<<o>> : o \in Objectives}

InitLife == InitClass(LifeClasses)

NextLife ==
    \/ \E params \in LifeParameters : Construct(params)
    \/ \E importances \in Importances : FeatureImportances(importances)
    \/ \E X \in Inputs, outs \in [1..(Len(component_graph) - 1) -> Outputs],
          raiseAt \in 0..Len(component_graph) : Fit(X, outs, raiseAt)
    \/ \E X \in Inputs, raiseAt \in 0..Len(component_graph) : Predict(X, raiseAt)
    \/ \E X \in Inputs, objectives \in LifeObjectiveLists :
          \E fail \in Failures(objectives) : Score(X, objectives, fail)
    \/ \E return_dict \in BOOLEAN : Describe(return_dict)
    \/ \E index \in Indices : GetItem(index)
    \/ \E index \in Indices, value \in LifeComponents : SetItem(index, value)
    \/ Return

SpecLife == InitLife /\ [][NextLife]_vars

(***************************************************************************)
(* Scoring: a base and a multiclass pipeline over the same two-component  *)
(* graph, fitted and scored on every list of objectives.                  *)
(***************************************************************************)
ScoreClasses ==
    {[name |-> NoName,
      component_graph |-> <<"Simple Imputer", "Random Forest Classifier">>,
      problem_types |-> <<"multiclass">>, kind |-> k] : k \in Kinds}

InitScore == InitClass(ScoreClasses)

NextScore ==
    \/ Construct(NoParameters)
    \/ \E X \in Inputs, outs \in [1..(Len(component_graph) - 1) -> Outputs],
          raiseAt \in 0..Len(component_graph) : Fit(X, outs, raiseAt)
    \/ \E X \in Inputs, objectives \in SeqsUpTo(Objectives, MaxObjectives) :
          \E fail \in Failures(objectives) : Score(X, objectives, fail)
    \/ Return

SpecScore == InitScore /\ [][NextScore]_vars

(***************************************************************************)
(* The claims.                                                             *)
(***************************************************************************)
Last(seq) == seq[Len(seq)]
Constructing == ret.op = "__init__"
TemplateNames == [i \in DOMAIN cls.component_graph |->
                    handle_component(cls.component_graph[i]).name]
\* every component's constructor accepts the keyword arguments it is given
Instantiable ==
    \A i \in DOMAIN TemplateNames :
        ~ConstructorRaises(ParametersGet(ctor_parameters, TemplateNames[i]))
LastIsEstimator ==
    /\ cls.component_graph # <<>>
    /\ IsEstimator(handle_component(Last(cls.component_graph)))
InvalidPipelineStructure == ret.err = "ValueError" /\ ret.msg = MsgNoEstimator
ComponentInstantiationError == ret.err = "ValueError" /\ ret.msg = MsgInstantiate
UnsupportedProblemType == ret.err = "ValueError" /\ ret.msg = MsgProblemType
UnsupportedOperation == ret.err = "NotImplementedError"
DeclaresUnsupported ==
    \E i \in DOMAIN cls.problem_types :
        cls.problem_types[i] \notin
            EstimatorProblemTypes(handle_component(Last(cls.component_graph)))

\* C1: without a successfully completed fit, predict, score and
\* feature_importances fail with NotFittedError.
C1_NotFittedBeforeFit ==
    (~fitted /\ ret.op \in {"predict", "score", "feature_importances"})
        => ret.err = "NotFittedError"

\* C2 as stated: a component graph whose last element is not an Estimator always
\* makes construction fail with InvalidPipelineStructure, and no instance is
\* produced.
C2_AlwaysInvalidStructure ==
    (Constructing /\ cls.component_graph # <<>> /\ ~LastIsEstimator)
        => (phase = "failed" /\ InvalidPipelineStructure)

\* C2 amended: a component graph whose last element is not an Estimator always
\* makes construction fail and no instance is produced; the failure is
\* InvalidPipelineStructure when every component instantiates, and the
\* instantiation error, raised first, when a constructor rejects its arguments.
C2_InvalidStructure ==
    (Constructing /\ cls.component_graph # <<>> /\ ~LastIsEstimator)
        => /\ phase = "failed"
           /\ Instantiable => InvalidPipelineStructure
           /\ ~Instantiable => ComponentInstantiationError

C2_Witness ==
    /\ Constructing /\ phase = "failed" /\ InvalidPipelineStructure
    /\ Len(cls.component_graph) = 2
    /\ ~LastIsEstimator

\* C3 as stated: a declared problem type outside the estimator's supported set
\* always makes construction raise UnsupportedProblemType, listing the valid
\* set, before any data is touched; construction passes the check when every
\* declared type is supported.
C3_AlwaysUnsupportedProblemType ==
    (Constructing /\ LastIsEstimator)
        => /\ DeclaresUnsupported =>
                /\ phase = "failed"
                /\ UnsupportedProblemType
           /\ ~DeclaresUnsupported => ~UnsupportedProblemType

\* C3 amended: when every component instantiates and the last one is an
\* Estimator, construction raises UnsupportedProblemType, naming the first
\* unsupported declared type and listing the estimator's valid set, exactly when
\* some declared type is outside that set; it does so inside the constructor,
\* with no component called on data, and otherwise construction succeeds.
C3_UnsupportedProblemType ==
    (Constructing /\ LastIsEstimator /\ Instantiable)
        => /\ DeclaresUnsupported =>
                /\ phase = "failed"
                /\ UnsupportedProblemType
                /\ \E k \in DOMAIN cls.problem_types :
                      /\ ret.info = <<cls.problem_types[k]>>
                      /\ cls.problem_types[k] \notin ret.value
                      /\ \A j \in 1..(k - 1) : cls.problem_types[j] \in ret.value
                /\ ret.value =
                     EstimatorProblemTypes(handle_component(Last(cls.component_graph)))
                /\ ret.calls = <<>>
                /\ input_feature_names = <<>>
                /\ ~fitted
           /\ ~DeclaresUnsupported =>
                /\ phase = "constructed"
                /\ ret.err = NoError

C3_Witness ==
    /\ Constructing /\ phase = "failed" /\ UnsupportedProblemType
    /\ LastIsEstimator /\ Instantiable
    /\ Len(cls.problem_types) = 2
    /\ cls.problem_types[1] = "binary"
    /\ cls.problem_types[2] = "regression"

\* the calls named `what` made during the most recent operation
CallsOf(what) == SelectSeq(ret.calls, LAMBDA c : c.call = what)
Requested == ret.info
NeedsKind(proba) ==
    \E i \in DOMAIN Requested : Requested[i].score_needs_proba = proba
Scored == fitted /\ ret.op = "score"

\* C4: within one score call on a fitted pipeline, predict and predict_proba
\* are each invoked at most once, not at all when no objective needs that kind,
\* and every objective of a kind is scored on the result of that one call.
C4_PredictAtMostOnce ==
    Scored =>
        /\ Len(CallsOf("predict")) <= 1
        /\ Len(CallsOf("predict_proba")) <= 1
        /\ ~NeedsKind(FALSE) => Len(CallsOf("predict")) = 0
        /\ ~NeedsKind(TRUE) => Len(CallsOf("predict_proba")) = 0
        /\ ret.err = NoError =>
              /\ NeedsKind(FALSE) => Len(CallsOf("predict")) = 1
              /\ NeedsKind(TRUE) => Len(CallsOf("predict_proba")) = 1
              /\ Len(CallsOf("score")) = Len(Requested)

C4_Witness ==
    /\ Scored /\ ret.err = NoError
    /\ Len(Requested) = 2
    /\ Requested[1].score_needs_proba /\ Requested[2].score_needs_proba
    /\ Requested[1] # Requested[2]
    /\ Len(CallsOf("predict_proba")) = 1
    /\ Len(CallsOf("predict")) = 0

\* the keys of an ordered mapping, in order
Keys(d) == [i \in DOMAIN d |-> d[i][1]]
RequestedNames == [i \in DOMAIN Requested |-> Requested[i].name]
FirstIndex(seq, x) == CHOOSE i \in DOMAIN seq : seq[i] = x /\ \A j \in 1..(i - 1) : seq[j] # x
LastIndex(seq, x) == CHOOSE i \in DOMAIN seq : seq[i] = x /\ \A j \in (i + 1)..Len(seq) : seq[j] # x
NoDuplicates(seq) == \A i, j \in DOMAIN seq : seq[i] = seq[j] => i = j

\* C5: score on a fitted pipeline returns an ordered mapping whose keys are
\* exactly the names of the requested objectives, in the requested order (a name
\* requested twice keeps the place of its first request), each mapped to the
\* score that objective produced.
C5_ScoresInRequestedOrder ==
    (Scored /\ ret.err = NoError) =>
        LET keys == Keys(ret.value)
            produced == CallsOf("score")
        IN  /\ NoDuplicates(keys)
            /\ {keys[i] : i \in DOMAIN keys} =
               {RequestedNames[i] : i \in DOMAIN RequestedNames}
            /\ \A i, j \in DOMAIN keys :
                  i < j => FirstIndex(RequestedNames, keys[i])
                             < FirstIndex(RequestedNames, keys[j])
            /\ NoDuplicates(RequestedNames) => keys = RequestedNames
            /\ \A i \in DOMAIN keys :
                  ret.value[i][2] =
                     produced[LastIndex(RequestedNames, keys[i])].args

C5_Witness ==
    /\ Scored /\ ret.err = NoError
    /\ Len(Requested) = 2
    /\ Requested[1].name = "proba_X" /\ Requested[2].name = "hard"
    /\ Keys(ret.value) = <<"proba_X", "hard">>

\* C6: after any sequence of fit, predict, score and describe calls,
\* describe(return_dict=True) returns the parameters mapping passed at
\* construction.
C6_DescribeReturnsParameters ==
    /\ phase = "constructed" => parameters = ctor_parameters
    /\ (ret.op = "describe" /\ ret.info = <<"return_dict">>)
          => ret.value = ctor_parameters

C6_Witness ==
    /\ ret.op = "describe" /\ ret.info = <<"return_dict">>
    /\ fitted
    /\ Len(component_graph) = 2
    /\ ctor_parameters # NoParameters
    /\ ret.value = ctor_parameters

\* the name the specification derives from a sequence of component names
RECURSIVE JoinedTransformers(_, _)
JoinedTransformers(names, i) ==
    IF i >= Len(names) THEN ""
    ELSE (IF i = 1 THEN " w/ " ELSE " + ") \o names[i] \o JoinedTransformers(names, i + 1)
DerivedName(names) == Last(names) \o JoinedTransformers(names, 1)

\* C7: the pipeline's name is the estimator's name followed by the preceding
\* transformers' names in graph order, the first joined with " w/ " and the
\* others with " + "; the name a concrete pipeline class declares agrees with
\* this derivation from its own component_graph.
C7_NameFromComponentGraph ==
    phase = "constructed" =>
        /\ name = DerivedName(TemplateNames)
        /\ cls.name # NoName => cls.name = DerivedName(TemplateNames)

\* the first half of C7 alone: the generated name follows the derivation
NameIsDerived == phase = "constructed" => name = DerivedName(TemplateNames)

IsTransformer(component) == component.name \in Transformers
ConstructedGraph == PipelineInit(cls, ctor_parameters).fields.component_graph

\* C8: in every state of a constructed pipeline the component graph is
\* non-empty, ends with an Estimator, has only Transformers before it, and is
\* the sequence built at construction; item assignment and slicing fail with
\* UnsupportedOperation.
C8_GraphInvariant ==
    phase = "constructed" =>
        /\ component_graph # <<>>
        /\ IsEstimator(Last(component_graph))
        /\ \A i \in 1..(Len(component_graph) - 1) : IsTransformer(component_graph[i])
        /\ component_graph = ConstructedGraph
        /\ ret.op = "__setitem__" => UnsupportedOperation
        /\ (ret.op = "__getitem__" /\ ret.info[1].type = "slice") => UnsupportedOperation

\* C8 without the clause on the preceding elements
GraphIsStable ==
    phase = "constructed" =>
        /\ component_graph # <<>>
        /\ IsEstimator(Last(component_graph))
        /\ component_graph = ConstructedGraph
        /\ ret.op = "__setitem__" => UnsupportedOperation
        /\ (ret.op = "__getitem__" /\ ret.info[1].type = "slice") => UnsupportedOperation

\* during fit the transformers run in graph order, each after its input's
\* columns were recorded, each on the output of the one before; the estimator is
\* fitted last and once
FitInOrder ==
    (ret.op = "fit" /\ ret.err = NoError) =>
        LET n == Len(component_graph)
        IN  /\ Len(ret.calls) = 2 * n
            /\ \A i \in 1..n :
                  /\ ret.calls[2 * i - 1].call = "record"
                  /\ ret.calls[2 * i - 1].component = i
                  /\ ret.calls[2 * i].call = IF i < n THEN "fit_transform" ELSE "fit"
                  /\ ret.calls[2 * i].component = i
                  /\ ret.calls[2 * i].input = ret.calls[2 * i - 1].input
            /\ ret.calls[1].input = pd_DataFrame(ret.info[1])
            /\ \A i \in 2..n : ret.calls[2 * i].input \in Outputs

\* C9: fit processes the transformers in graph order, records each one's input
\* columns before running it, fits the estimator last and once, and after a
\* successful fit input_feature_names holds, for every component, the columns
\* it received in that fit.
C9_FitRecordsEveryInput ==
    /\ FitInOrder
    /\ (ret.op = "fit" /\ ret.err = NoError) =>
          \A i \in DOMAIN component_graph :
              /\ component_graph[i].name \in DOMAIN input_feature_names
              /\ input_feature_names[component_graph[i].name] =
                    Columns(ret.calls[2 * i].input)

\* C10: score calls every objective as score(predictions, truth[, X]): the
\* probability estimates first when score_needs_proba, the hard predictions
\* otherwise, the true labels second, and X exactly when uses_extra_columns; for
\* the base and the multiclass pipeline alike.
C10_DispatchByFlags ==
    ret.op = "score" =>
        \A k \in DOMAIN ret.calls :
            ret.calls[k].call = "score" =>
                \E i \in DOMAIN Requested :
                    /\ Requested[i].name = ret.calls[k].objective
                    /\ ret.calls[k].args =
                         <<Requested[i].name,
                           IF Requested[i].score_needs_proba
                             THEN "y_predict_proba" ELSE "y_predict",
                           "y",
                           IF Requested[i].uses_extra_columns THEN "X" ELSE "None">>

\* C10 for the base pipeline alone
BaseDispatchByFlags == cls.kind = "base" => C10_DispatchByFlags

====
